---- MODULE Spec2Model ----
(***************************************************************************)
(* Order / User core of the hexagonal teaching application:                *)
(*   domain/entities/order.py, domain/entities/user.py,                    *)
(*   application/services/{order,user}_service.py,                         *)
(*   infrastructure/adapters/memory_{order,user}_repository.py.            *)
(*                                                                         *)
(* The specifications share the variables:                                 *)
(*   SpecOrder  one Order object, the methods of the entity and the clock; *)
(*   SpecUserEntity  one User object, its methods and the clock;           *)
(*   SpecRepo   the two in-memory repositories behind their ports;         *)
(*   SpecMain   the routers of main.py, each over the repositories its     *)
(*              module creates;                                            *)
(*   SpecOrderRace, SpecUserRace  two calls of a service under way at      *)
(*              once, each repository call and entity call one step;       *)
(*   SpecUser   UserService over the user repository;                      *)
(*   Spec       OrderService over both repositories, with the calls of     *)
(*              UserService that make a user exist or cease to exist.      *)
(* The clock advances in the entity specifications only: the services read *)
(* it for the stamps the entities take, which those cover.                 *)
(*                                                                         *)
(* Conventions.  Optional[T] is a sequence of length <= 1 (None == <<>>,   *)
(* Some(x) == <<x>>).  A str is a sequence of one-character strings, so    *)
(* that lower() and strip() are computed.  datetime.utcnow() reads the     *)
(* variable now, which the environment advances.  uuid.uuid4() is a fresh  *)
(* value: uuid.user and uuid.order count the ids handed out so far to      *)
(* users and to orders, and the n-th id of a kind is <<kind, n>>.          *)
(* Amounts are whole numbers (floats that hold small integers exactly).    *)
(***************************************************************************)
EXTENDS Integers, Sequences, FiniteSets, TLC

VARIABLES order, user_obj, users, orders, now, uuid, ret, tasks, v1_users

vars == <<order, user_obj, users, orders, now, uuid, ret, tasks, v1_users>>

(* ------------------------------- bounds -------------------------------- *)

MaxClock == 1

MaxUsers == 2

MaxOrders == 2

MaxItems == 2

(* -------------------------------- ids ---------------------------------- *)

UserId(n) == <<"user", n>>

OrderId(n) == <<"order", n>>

(* ------------------------------ Optional ------------------------------- *)

None == <<>>

Some(x) == <<x>>

(* ------------------------------- strings ------------------------------- *)

LowerChar(c) == IF c = "A" THEN "a" ELSE IF c = "B" THEN "b" ELSE c

lower(s) == [i \in DOMAIN s |-> LowerChar(s[i])]

IsSpace(c) == c = " "

RECURSIVE lstrip(_)
lstrip(s) == IF s # <<>> /\ IsSpace(Head(s)) THEN lstrip(Tail(s)) ELSE s

RECURSIVE rstrip(_)
rstrip(s) ==
    IF s # <<>> /\ IsSpace(s[Len(s)]) THEN rstrip(SubSeq(s, 1, Len(s) - 1)) ELSE s

strip(s) == rstrip(lstrip(s))

(* ---------------------------- OrderStatus ------------------------------ *)

PENDING == "pending"

CONFIRMED == "confirmed"

PROCESSING == "processing"

SHIPPED == "shipped"

DELIVERED == "delivered"

CANCELLED == "cancelled"

OrderStatus == {PENDING, CONFIRMED, PROCESSING, SHIPPED, DELIVERED, CANCELLED}

(* ------------------------------ OrderItem ------------------------------ *)

(* Mutant: the quantity is forgotten. *)
subtotal_noQuantity(item) == item.unit_price

subtotal(item) == item.quantity * item.unit_price

RECURSIVE SumSubtotals(_)
SumSubtotals(items) ==
    IF items = <<>> THEN 0
    ELSE SumSubtotals(SubSeq(items, 1, Len(items) - 1)) + subtotal(items[Len(items)])

(* -------------------------------- Order -------------------------------- *)

(* The outcome of a method call on an entity: the object after the call    *)
(* and the message of the ValueError it raised ("" when it returned).      *)
Returned(self) == [self |-> self, error |-> ""]

Raised(self, msg) == [self |-> self, error |-> msg]

OrderCreate(id, user_id, items, shipping_address, notes, t) ==
    [id |-> id,
     user_id |-> user_id,
     items |-> items,
     status |-> PENDING,
     total |-> SumSubtotals(items),
     shipping_address |-> shipping_address,
     created_at |-> t,
     updated_at |-> None,
     notes |-> notes]

confirm(self, t) ==
    IF self.status # PENDING
    THEN Raised(self, "Solo se pueden confirmar pedidos pendientes")
    ELSE Returned([self EXCEPT !.status = CONFIRMED, !.updated_at = Some(t)])

(* Mutant: the status is set and the stamp forgotten. *)
process_noStamp(self, t) ==
    IF self.status # CONFIRMED
    THEN Raised(self, "Solo se pueden procesar pedidos confirmados")
    ELSE Returned([self EXCEPT !.status = PROCESSING])

process(self, t) ==
    IF self.status # CONFIRMED
    THEN Raised(self, "Solo se pueden procesar pedidos confirmados")
    ELSE Returned([self EXCEPT !.status = PROCESSING, !.updated_at = Some(t)])

(* Mutant: a confirmed order may be shipped as well. *)
ship_fromConfirmed(self, t) ==
    IF self.status \notin {PROCESSING, CONFIRMED}
    THEN Raised(self, "Solo se pueden enviar pedidos en proceso")
    ELSE Returned([self EXCEPT !.status = SHIPPED, !.updated_at = Some(t)])

(* Mutant: updated_at is stamped before the guard is evaluated. *)
ship_stampFirst(self, t) ==
    LET stamped == [self EXCEPT !.updated_at = Some(t)]
    IN  IF self.status # PROCESSING
        THEN Raised(stamped, "Solo se pueden enviar pedidos en proceso")
        ELSE Returned([stamped EXCEPT !.status = SHIPPED])

(* Mutant: the message names the status the order is in. *)
ship_namingStatus(self, t) ==
    IF self.status # PROCESSING
    THEN Raised(self, "Solo se pueden enviar pedidos en proceso: " \o self.status)
    ELSE Returned([self EXCEPT !.status = SHIPPED, !.updated_at = Some(t)])

ship(self, t) ==
    IF self.status # PROCESSING
    THEN Raised(self, "Solo se pueden enviar pedidos en proceso")
    ELSE Returned([self EXCEPT !.status = SHIPPED, !.updated_at = Some(t)])

(* Mutant: the guard is the negation of the one of cancel. *)
deliver_unordered(self, t) ==
    IF self.status \in {DELIVERED, CANCELLED}
    THEN Raised(self, "Solo se pueden entregar pedidos enviados")
    ELSE Returned([self EXCEPT !.status = DELIVERED, !.updated_at = Some(t)])

deliver(self, t) ==
    IF self.status # SHIPPED
    THEN Raised(self, "Solo se pueden entregar pedidos enviados")
    ELSE Returned([self EXCEPT !.status = DELIVERED, !.updated_at = Some(t)])

(* Mutant: only a delivered order is protected. *)
cancel_shipped(self, t) ==
    IF self.status \in {DELIVERED}
    THEN Raised(self, "No se pueden cancelar pedidos enviados o entregados")
    ELSE Returned([self EXCEPT !.status = CANCELLED, !.updated_at = Some(t)])

(* Mutant: a cancelled order is returned as it is. *)
cancel_onceOnly(self, t) ==
    IF self.status \in {SHIPPED, DELIVERED}
    THEN Raised(self, "No se pueden cancelar pedidos enviados o entregados")
    ELSE IF self.status = CANCELLED
         THEN Returned(self)
         ELSE Returned([self EXCEPT !.status = CANCELLED, !.updated_at = Some(t)])

cancel(self, t) ==
    IF self.status \in {SHIPPED, DELIVERED}
    THEN Raised(self, "No se pueden cancelar pedidos enviados o entregados")
    ELSE Returned([self EXCEPT !.status = CANCELLED, !.updated_at = Some(t)])

(* Mutant: the item is appended before the guard is evaluated. *)
add_item_appendFirst(self, item, t) ==
    LET appended == Append(self.items, item)
    IN  IF self.status # PENDING
        THEN Raised([self EXCEPT !.items = appended],
                    "Solo se pueden modificar pedidos pendientes")
        ELSE Returned([self EXCEPT !.items = appended,
                                   !.total = SumSubtotals(appended),
                                   !.updated_at = Some(t)])

(* Mutant: the item is inserted at the front. *)
add_item_prepend(self, item, t) ==
    IF self.status # PENDING
    THEN Raised(self, "Solo se pueden modificar pedidos pendientes")
    ELSE LET appended == <<item>> \o self.items
         IN  Returned([self EXCEPT !.items = appended,
                                   !.total = SumSubtotals(appended),
                                   !.updated_at = Some(t)])

(* Mutant: an order may be modified until it is shipped. *)
add_item_untilShipped(self, item, t) ==
    IF self.status \notin {PENDING, CONFIRMED, PROCESSING}
    THEN Raised(self, "Solo se pueden modificar pedidos pendientes")
    ELSE LET appended == Append(self.items, item)
         IN  Returned([self EXCEPT !.items = appended,
                                   !.total = SumSubtotals(appended),
                                   !.updated_at = Some(t)])

add_item(self, item, t) ==
    IF self.status # PENDING
    THEN Raised(self, "Solo se pueden modificar pedidos pendientes")
    ELSE LET appended == Append(self.items, item)
         IN  Returned([self EXCEPT !.items = appended,
                                   !.total = SumSubtotals(appended),
                                   !.updated_at = Some(t)])

(* The transition methods by name. *)
Transition(op, self, t) ==
    CASE op = "confirm" -> confirm(self, t)
      [] op = "process" -> process(self, t)
      [] op = "ship"    -> ship(self, t)
      [] op = "deliver" -> deliver(self, t)
      [] op = "cancel"  -> cancel(self, t)

(* ------------------------- inputs of the entity ------------------------ *)

ItemInputs ==
    [product_id : {"PROD-001"}, product_name : {"Laptop HP"},
     quantity : {1, 2}, unit_price : {5, 10}]

RECURSIVE SeqsUpTo(_, _)
SeqsUpTo(S, n) ==
    IF n = 0 THEN {<<>>}
    ELSE LET shorter == SeqsUpTo(S, n - 1)
         IN  shorter \cup {Append(q, x) : q \in shorter, x \in S}

EntityUserIds == {UserId(1)}

Addresses == {"Calle Principal #123"}

NotesInputs == {None}

(* No call of a service is under way. *)
NoTasks == <<>>

(* What ret holds before any call. *)
NoCall == [op |-> "", arg |-> None, error |-> "", pre |-> None]

(* ===================== SpecOrder: the Order entity ===================== *)

InitOrder ==
    /\ now = 0
    /\ uuid = [user |-> 0, order |-> 1]
    /\ \E items \in SeqsUpTo(ItemInputs, MaxItems), u \in EntityUserIds,
          a \in Addresses, n \in NotesInputs :
           order = OrderCreate(OrderId(1), u, items, a, n, 0)
    /\ user_obj = None
    /\ users = <<>>
    /\ orders = <<>>
    /\ ret = NoCall
    /\ tasks = NoTasks
    /\ v1_users = <<>>

Tick ==
    /\ now < MaxClock
    /\ now' = now + 1
    /\ UNCHANGED <<v1_users, tasks, user_obj, order, users, orders, uuid, ret>>

(* Order.create: a new object replaces the one under study. *)
EntityCreate ==
    /\ uuid.order < MaxOrders
    /\ \E items \in SeqsUpTo(ItemInputs, MaxItems), u \in EntityUserIds,
          a \in Addresses, n \in NotesInputs :
           order' = OrderCreate(OrderId(uuid.order + 1), u, items, a, n, now)
    /\ uuid' = [uuid EXCEPT !.order = @ + 1]
    /\ ret' = [op |-> "create", arg |-> None, error |-> "", pre |-> None]
    /\ UNCHANGED <<v1_users, tasks, user_obj, users, orders, now>>

EntityCall(op) ==
    LET r == Transition(op, order, now)
    IN  /\ order' = r.self
        /\ ret' = [op |-> op, arg |-> None, error |-> r.error, pre |-> Some(order)]
        /\ UNCHANGED <<v1_users, tasks, user_obj, users, orders, now, uuid>>

EntityConfirm == EntityCall("confirm")

EntityProcess == EntityCall("process")

EntityShip == EntityCall("ship")

EntityDeliver == EntityCall("deliver")

EntityCancel == EntityCall("cancel")

EntityAddItem ==
    /\ order.status = PENDING => Len(order.items) < MaxItems
    /\ \E item \in ItemInputs :
         LET r == add_item(order, item, now)
         IN  /\ order' = r.self
             /\ ret' = [op |-> "add_item", arg |-> Some(item), error |-> r.error,
                        pre |-> Some(order)]
    /\ UNCHANGED <<v1_users, tasks, user_obj, users, orders, now, uuid>>

NextOrder ==
    \/ Tick
    \/ EntityCreate
    \/ EntityConfirm
    \/ EntityProcess
    \/ EntityShip
    \/ EntityDeliver
    \/ EntityCancel
    \/ EntityAddItem

SpecOrder == InitOrder /\ [][NextOrder]_vars

(* ================================ User ================================= *)

(* hashlib.sha256(password).hexdigest(): a digest that names its input     *)
(* (no collisions among the passwords of the model).                       *)
hash_password(password) == <<"sha256", password>>

UserCreate(id, email, name, password, t) ==
    [id |-> id,
     email |-> strip(lower(email)),
     name |-> strip(name),
     password_hash |-> hash_password(password),
     is_active |-> TRUE,
     created_at |-> t,
     updated_at |-> None]

deactivate(self, t) == [self EXCEPT !.is_active = FALSE, !.updated_at = Some(t)]

activate(self, t) == [self EXCEPT !.is_active = TRUE, !.updated_at = Some(t)]

(* The names hasattr finds on every User besides its fields: the methods   *)
(* the class defines.                                                      *)
ClassAttributes ==
    {"create", "_hash_password", "verify_password", "update", "deactivate",
     "activate", "to_dict"}

hasattr(self, key) == key \in DOMAIN self \cup ClassAttributes

(* Mutant: id and created_at are not excluded. *)
update_anyKey(self, kwargs, t) ==
    LET applied == {key \in DOMAIN kwargs : hasattr(self, key)}
        set == [key \in DOMAIN self \cup applied |->
                   IF key \in applied THEN kwargs[key] ELSE self[key]]
    IN  [key \in DOMAIN set |-> IF key = "updated_at" THEN Some(t) ELSE set[key]]

(* User.update: kwargs is a function from the keys supplied to their       *)
(* values; setattr on a name that only the class has gives the object an  *)
(* attribute of that name.                                                 *)
update(self, kwargs, t) ==
    LET applied == {key \in DOMAIN kwargs :
                       hasattr(self, key) /\ key \notin {"id", "created_at"}}
        set == [key \in DOMAIN self \cup applied |->
                   IF key \in applied THEN kwargs[key] ELSE self[key]]
    IN  [key \in DOMAIN set |-> IF key = "updated_at" THEN Some(t) ELSE set[key]]

(* ===================== SpecUserEntity: the User entity ================= *)

(* ret holds the last call on the object: the method, its arguments, the   *)
(* object as it was before the call and the time utcnow gave the call.     *)

(* The keyword arguments update is called with: one value for each key.    *)
KwargValue ==
    [name |-> <<"m">>, email |-> <<"B">>, is_active |-> FALSE,
     id |-> UserId(2), created_at |-> 7, updated_at |-> Some(9),
     nickname |-> <<"k">>, verify_password |-> <<"v">>]

KwargKeySets ==
    {{}, {"name"}, {"email"}, {"is_active"}, {"id"}, {"created_at"},
     {"updated_at"}, {"nickname"}, {"verify_password"},
     {"name", "id", "created_at", "nickname"}}

KwargsInputs == {[key \in keys |-> KwargValue[key]] : keys \in KwargKeySets}

InitUserEntity ==
    /\ now = 0
    /\ uuid = [user |-> 1, order |-> 0]
    /\ order = None
    /\ user_obj = UserCreate(UserId(1), <<"A">>, <<"n">>, "p1", 0)
    /\ users = <<>>
    /\ orders = <<>>
    /\ ret = NoCall
    /\ tasks = NoTasks
    /\ v1_users = <<>>

UserEntityUpdate ==
    /\ \E kwargs \in KwargsInputs :
           /\ user_obj' = update(user_obj, kwargs, now)
           /\ ret' = [op |-> "update", arg |-> Some(kwargs), error |-> "",
                      pre |-> Some(user_obj), at |-> now]
    /\ UNCHANGED <<v1_users, tasks, order, users, orders, now, uuid>>

UserEntityDeactivate ==
    /\ user_obj' = deactivate(user_obj, now)
    /\ ret' = [op |-> "deactivate", arg |-> None, error |-> "",
               pre |-> Some(user_obj), at |-> now]
    /\ UNCHANGED <<v1_users, tasks, order, users, orders, now, uuid>>

UserEntityActivate ==
    /\ user_obj' = activate(user_obj, now)
    /\ ret' = [op |-> "activate", arg |-> None, error |-> "",
               pre |-> Some(user_obj), at |-> now]
    /\ UNCHANGED <<v1_users, tasks, order, users, orders, now, uuid>>

NextUserEntity ==
    \/ Tick
    \/ UserEntityUpdate
    \/ UserEntityDeactivate
    \/ UserEntityActivate

SpecUserEntity == InitUserEntity /\ [][NextUserEntity]_vars

(* ======================== in-memory repositories ======================= *)
(* A repository is the dict _users / _orders: a function from the ids it   *)
(* holds to the entities.  The dict holds the objects themselves, so a     *)
(* field written on a stored entity is written in the store.  Keys enter   *)
(* the dict in the order the ids are generated, so iteration order is      *)
(* ascending id.                                                           *)

EmptyStore == <<>>

(* Mutant: setdefault, an entry that exists is kept. *)
Put_setdefault(store, entity) ==
    [k \in DOMAIN store \cup {entity.id} |->
        IF k \in DOMAIN store THEN store[k] ELSE entity]

Put(store, entity) ==
    [k \in DOMAIN store \cup {entity.id} |-> IF k = entity.id THEN entity ELSE store[k]]

Remove(store, id) == [k \in DOMAIN store \ {id} |-> store[k]]

MinOf(S) == CHOOSE x \in S : \A y \in S : x[2] <= y[2]

UserRepo_get_by_id(store, user_id) ==
    IF user_id \in DOMAIN store THEN Some(store[user_id]) ELSE None

(* Mutant: the comparison is case-sensitive. *)
UserRepo_get_by_email_exact(store, email) ==
    LET matching == {k \in DOMAIN store : store[k].email = email}
    IN  IF matching = {} THEN None ELSE Some(store[MinOf(matching)])

UserRepo_get_by_email(store, email) ==
    LET email_lower == lower(email)
        matching == {k \in DOMAIN store : lower(store[k].email) = email_lower}
    IN  IF matching = {} THEN None ELSE Some(store[MinOf(matching)])

UserRepo_save(store, u) == Put(store, u)

UserRepo_delete(store, user_id) ==
    IF user_id \in DOMAIN store
    THEN [found |-> TRUE, store |-> Remove(store, user_id)]
    ELSE [found |-> FALSE, store |-> store]

OrderRepo_get_by_id(store, order_id) ==
    IF order_id \in DOMAIN store THEN Some(store[order_id]) ELSE None

(* The keys of the dict in iteration order. *)
RECURSIVE KeysInOrder(_)
KeysInOrder(S) ==
    IF S = {} THEN <<>> ELSE <<MinOf(S)>> \o KeysInOrder(S \ {MinOf(S)})

(* [v for v in store.values() if ...]: the values under the keys kept by   *)
(* the condition, in the order of the iteration.                           *)
ValuesWhere(store, keptKeys) ==
    LET kept == KeysInOrder(keptKeys)
    IN  [i \in DOMAIN kept |-> store[kept[i]]]

OrderRepo_get_by_user_id(store, user_id) ==
    ValuesWhere(store, {k \in DOMAIN store : store[k].user_id = user_id})

(* Mutant: the filter is forgotten. *)
OrderRepo_get_by_status_all(store, status) ==
    ValuesWhere(store, DOMAIN store)

OrderRepo_get_by_status(store, status) ==
    ValuesWhere(store, {k \in DOMAIN store : store[k].status = status})

OrderRepo_save(store, o) == Put(store, o)

(* Mutant: pop(order_id, None) and report success. *)
OrderRepo_delete_always(store, order_id) ==
    [found |-> TRUE, store |-> Remove(store, order_id)]

OrderRepo_delete(store, order_id) ==
    IF order_id \in DOMAIN store
    THEN [found |-> TRUE, store |-> Remove(store, order_id)]
    ELSE [found |-> FALSE, store |-> store]

(* ============================== services =============================== *)

(* Python truthiness of an Optional[str]: None and "" are falsy. *)
Truthy(opt) == opt # None /\ opt[1] # <<>>

(* ret of a service call: what was called, with what, and how it ended.    *)
(* out is "entity" (an entity was returned; val is its id), "None",        *)
(* "True", "False", or the class of the exception raised.  seq alternates  *)
(* with every call, so that a call is always a step.                       *)
Outcome(op, arg, out, val) ==
    [op |-> op, arg |-> arg, out |-> out, val |-> val, seq |-> 1 - ret.seq]

NoSvcCall == [op |-> "", arg |-> None, out |-> "", val |-> None, seq |-> 0]

(* --------------------------- UserService ------------------------------- *)

create_user(email, name, password) ==
    LET existing_user == UserRepo_get_by_email(users, email)
        arg == [email |-> email, name |-> name, password |-> password]
    IN  IF existing_user # None
        THEN /\ ret' = Outcome("create_user", arg, "ValueError", None)
             /\ UNCHANGED <<v1_users, tasks, user_obj, order, users, orders, now, uuid>>
        ELSE /\ uuid.user < MaxUsers
             /\ LET user == UserCreate(UserId(uuid.user + 1), email, name, password, now)
                IN  /\ users' = UserRepo_save(users, user)
                    /\ ret' = Outcome("create_user", arg, "entity", Some(user.id))
             /\ uuid' = [uuid EXCEPT !.user = @ + 1]
             /\ UNCHANGED <<v1_users, tasks, user_obj, order, orders, now>>

update_user(user_id, name, email) ==
    LET found == UserRepo_get_by_id(users, user_id)
        arg == [user_id |-> user_id, name |-> name, email |-> email]
    IN  IF found = None
        THEN /\ ret' = Outcome("update_user", arg, "None", None)
             /\ UNCHANGED <<v1_users, tasks, user_obj, order, users, orders, now, uuid>>
        ELSE LET user0 == found[1]
                 user1 == IF Truthy(name) THEN [user0 EXCEPT !.name = name[1]] ELSE user0
                 user2 == IF Truthy(email) THEN [user1 EXCEPT !.email = email[1]] ELSE user1
             IN  /\ users' = UserRepo_save(users, user2)
                 /\ ret' = Outcome("update_user", arg, "entity", Some(user_id))
                 /\ UNCHANGED <<v1_users, tasks, user_obj, order, orders, now, uuid>>

(* Mutant: the orders of the user are deleted with the user. *)
delete_user_cascade(user_id) ==
    LET r == UserRepo_delete(users, user_id)
        kept == {k \in DOMAIN orders : orders[k].user_id # user_id}
    IN  /\ users' = r.store
        /\ orders' = [k \in kept |-> orders[k]]
        /\ ret' = Outcome("delete_user", [user_id |-> user_id],
                          IF r.found THEN "True" ELSE "False", None)
        /\ UNCHANGED <<v1_users, tasks, user_obj, order, now, uuid>>

delete_user(user_id) ==
    LET r == UserRepo_delete(users, user_id)
    IN  /\ users' = r.store
        /\ ret' = Outcome("delete_user", [user_id |-> user_id],
                          IF r.found THEN "True" ELSE "False", None)
        /\ UNCHANGED <<v1_users, tasks, user_obj, order, orders, now, uuid>>

(* --------------------------- OrderService ------------------------------ *)

(* OrderItem(product_id=item["product_id"], ...) for one raw descriptor. *)
MakeOrderItem(item) ==
    [product_id |-> item.product_id,
     product_name |-> item.product_name,
     quantity |-> item.quantity,
     unit_price |-> item.unit_price]

(* Mutant: the user is not looked up. *)
create_order_anyUser(user_id, items, shipping_address, notes) ==
    LET arg == [user_id |-> user_id, items |-> items,
                shipping_address |-> shipping_address, notes |-> notes]
    IN  /\ uuid.order < MaxOrders
        /\ LET order_items == [i \in DOMAIN items |-> MakeOrderItem(items[i])]
               o == OrderCreate(OrderId(uuid.order + 1), user_id, order_items,
                                shipping_address, notes, now)
           IN  /\ orders' = OrderRepo_save(orders, o)
               /\ ret' = Outcome("create_order", arg, "entity", Some(o.id))
        /\ uuid' = [uuid EXCEPT !.order = @ + 1]
        /\ UNCHANGED <<v1_users, tasks, user_obj, order, users, now>>

create_order(user_id, items, shipping_address, notes) ==
    LET user == UserRepo_get_by_id(users, user_id)
        arg == [user_id |-> user_id, items |-> items,
                shipping_address |-> shipping_address, notes |-> notes]
    IN  IF user = None
        THEN /\ ret' = Outcome("create_order", arg, "ValueError", None)
             /\ UNCHANGED <<v1_users, tasks, user_obj, order, users, orders, now, uuid>>
        ELSE /\ uuid.order < MaxOrders
             /\ LET order_items == [i \in DOMAIN items |-> MakeOrderItem(items[i])]
                    o == OrderCreate(OrderId(uuid.order + 1), user_id, order_items,
                                     shipping_address, notes, now)
                IN  /\ orders' = OrderRepo_save(orders, o)
                    /\ ret' = Outcome("create_order", arg, "entity", Some(o.id))
             /\ uuid' = [uuid EXCEPT !.order = @ + 1]
             /\ UNCHANGED <<v1_users, tasks, user_obj, order, users, now>>

(* The ValueError of the entity is not caught: val holds its message.      *)
(* confirm_order, process_order, ship_order, deliver_order, cancel_order:  *)
(* the five use cases differ only in the entity method they call.  The     *)
(* method works on the stored object, so what it wrote is in the store     *)
(* whether or not it raised.                                               *)
(* Mutant: the method is called on whatever get_by_id returned; on None    *)
(* that raises AttributeError.                                             *)
transition_order_unchecked(op, order_id) ==
    LET found == OrderRepo_get_by_id(orders, order_id)
        name == op \o "_order"
        arg == [order_id |-> order_id]
    IN  IF found = None
        THEN /\ ret' = Outcome(name, arg, "AttributeError", None)
             /\ UNCHANGED <<v1_users, tasks, user_obj, order, users, orders, now, uuid>>
        ELSE LET r == Transition(op, found[1], now)
                 written == [orders EXCEPT ![order_id] = r.self]
             IN  /\ orders' = written
                 /\ ret' = Outcome(name, arg,
                                   IF r.error # "" THEN "ValueError" ELSE "entity",
                                   IF r.error # "" THEN Some(r.error)
                                   ELSE Some(order_id))
                 /\ UNCHANGED <<v1_users, tasks, user_obj, order, users, now, uuid>>

transition_order(op, order_id) ==
    LET found == OrderRepo_get_by_id(orders, order_id)
        name == op \o "_order"
        arg == [order_id |-> order_id]
    IN  IF found = None
        THEN /\ ret' = Outcome(name, arg, "None", None)
             /\ UNCHANGED <<v1_users, tasks, user_obj, order, users, orders, now, uuid>>
        ELSE LET r == Transition(op, found[1], now)
                 written == [orders EXCEPT ![order_id] = r.self]
             IN  IF r.error # ""
                 THEN /\ orders' = written
                      /\ ret' = Outcome(name, arg, "ValueError", Some(r.error))
                      /\ UNCHANGED <<v1_users, tasks, user_obj, order, users, now, uuid>>
                 ELSE /\ orders' = OrderRepo_save(written, r.self)
                      /\ ret' = Outcome(name, arg, "entity", Some(order_id))
                      /\ UNCHANGED <<v1_users, tasks, user_obj, order, users, now, uuid>>

(* Order has no method update: the call raises AttributeError. *)
update_order(order_id, shipping_address, notes) ==
    LET found == OrderRepo_get_by_id(orders, order_id)
        arg == [order_id |-> order_id, shipping_address |-> shipping_address,
                notes |-> notes]
    IN  /\ ret' = Outcome("update_order", arg,
                          IF found = None THEN "None" ELSE "AttributeError", None)
        /\ UNCHANGED <<v1_users, tasks, user_obj, order, users, orders, now, uuid>>

(* get_user_orders and get_orders_by_status return the list the           *)
(* repository built; OrderStatus(status) raises ValueError on a string     *)
(* that is the value of no member.                                         *)
get_user_orders(user_id) ==
    /\ ret' = Outcome("get_user_orders", [user_id |-> user_id], "list",
                      Some(OrderRepo_get_by_user_id(orders, user_id)))
    /\ UNCHANGED <<v1_users, tasks, user_obj, order, users, orders, now, uuid>>

get_orders_by_status(status) ==
    /\ ret' = IF status \notin OrderStatus
              THEN Outcome("get_orders_by_status", [status |-> status], "ValueError", None)
              ELSE Outcome("get_orders_by_status", [status |-> status], "list",
                           Some(OrderRepo_get_by_status(orders, status)))
    /\ UNCHANGED <<v1_users, tasks, user_obj, order, users, orders, now, uuid>>

delete_order(order_id) ==
    LET r == OrderRepo_delete(orders, order_id)
    IN  /\ orders' = r.store
        /\ ret' = Outcome("delete_order", [order_id |-> order_id],
                          IF r.found THEN "True" ELSE "False", None)
        /\ UNCHANGED <<v1_users, tasks, user_obj, order, users, now, uuid>>

(* ------------------------ inputs of the services ----------------------- *)

UserIds == {UserId(n) : n \in 1 .. MaxUsers}

OrderIds == {OrderId(n) : n \in 1 .. MaxOrders}

EmailInputs == {<<"a">>, <<"A">>, <<" ", "a">>, <<"b">>}

NameInputs == {<<"n">>, <<" ", "n">>}

PasswordInputs == {"p1", "p2"}

OptionalOf(S) == {None} \cup {Some(x) : x \in S}

InitSvc ==
    /\ now = 0
    /\ uuid = [user |-> 0, order |-> 0]
    /\ order = None
    /\ user_obj = None
    /\ users = EmptyStore
    /\ orders = EmptyStore
    /\ ret = NoSvcCall
    /\ tasks = NoTasks
    /\ v1_users = <<>>

(* ==================== SpecUser: the user service ======================= *)

CreateUser ==
    \E email \in EmailInputs, name \in NameInputs, password \in PasswordInputs :
        create_user(email, name, password)

UpdateUser ==
    \E user_id \in UserIds, name \in OptionalOf({<<" ", "m">>, <<>>}),
       email \in OptionalOf({<<"A">>}) :
        update_user(user_id, name, email)

DeleteUser == \E user_id \in UserIds : delete_user(user_id)

(* The DELETE endpoint of the v2 users router: it calls delete_user of the *)
(* service and answers 204, or 404 when the service returned False.        *)
v2_delete_user(user_id) ==
    LET deleted == UserRepo_delete(users, user_id)
    IN  /\ users' = deleted.store
        /\ ret' = Outcome("v2_delete_user", [user_id |-> user_id],
                          IF deleted.found THEN "204" ELSE "404", None)
        /\ UNCHANGED <<v1_users, tasks, user_obj, order, orders, now, uuid>>

V2DeleteUser == \E user_id \in UserIds : v2_delete_user(user_id)

NextUser ==
    \/ CreateUser
    \/ UpdateUser
    \/ DeleteUser
    \/ V2DeleteUser

SpecUser == InitSvc /\ [][NextUser]_vars

(* ============ Spec: the order service over both repositories =========== *)

SomeUserCreated == create_user(<<"a">>, <<"n">>, "p1")

SomeUserDeleted == \E user_id \in UserIds : delete_user(user_id)

ItemLists ==
    LET d(q, p) == [product_id |-> "PROD-001", product_name |-> "Laptop HP",
                    quantity |-> q, unit_price |-> p]
    IN  {<<d(2, 10), d(1, 5)>>}

(* The users orders are asked for: the first created and the next. *)
OrderOwners == {UserId(1), UserId(2)}

CreateOrder ==
    \E user_id \in OrderOwners, items \in ItemLists, a \in Addresses, n \in NotesInputs :
        create_order(user_id, items, a, n)

ConfirmOrder == \E order_id \in OrderIds : transition_order("confirm", order_id)

ProcessOrder == \E order_id \in OrderIds : transition_order("process", order_id)

ShipOrder == \E order_id \in OrderIds : transition_order("ship", order_id)

DeliverOrder == \E order_id \in OrderIds : transition_order("deliver", order_id)

CancelOrder == \E order_id \in OrderIds : transition_order("cancel", order_id)

UpdateOrder ==
    \E order_id \in OrderIds, a \in {Some(x) : x \in Addresses}, n \in NotesInputs :
        update_order(order_id, a, n)

DeleteOrder == \E order_id \in OrderIds : delete_order(order_id)

Next ==
    \/ SomeUserCreated
    \/ SomeUserDeleted
    \/ CreateOrder
    \/ ConfirmOrder
    \/ ProcessOrder
    \/ ShipOrder
    \/ DeliverOrder
    \/ CancelOrder
    \/ UpdateOrder
    \/ DeleteOrder

Spec == InitSvc /\ [][Next]_vars

(* ========== SpecRepo: the two repositories behind their ports ========== *)
(* save is called with a newly created entity, whose id is new to the      *)
(* store, or with another object that has the id of a stored entity;       *)
(* delete and the queries are called through the services, which pass the  *)
(* call on and return its result.                                          *)

user_save(u) ==
    /\ users' = UserRepo_save(users, u)
    /\ ret' = Outcome("user_save", [entity |-> u], "entity", Some(u.id))

order_save(o) ==
    /\ orders' = OrderRepo_save(orders, o)
    /\ ret' = Outcome("order_save", [entity |-> o], "entity", Some(o.id))

(* The orders saved alternate between two owners. *)
OwnerOf(n) == UserId(1 + (n % 2))

SaveNewUser ==
    /\ uuid.user < MaxUsers
    /\ user_save(UserCreate(UserId(uuid.user + 1), <<"a">>, <<"n">>, "p1", now))
    /\ uuid' = [uuid EXCEPT !.user = @ + 1]
    /\ UNCHANGED <<v1_users, tasks, user_obj, order, orders, now>>

SaveStoredUser ==
    /\ \E user_id \in DOMAIN users : user_save(deactivate(users[user_id], now))
    /\ UNCHANGED <<v1_users, tasks, user_obj, order, orders, now, uuid>>

SaveNewOrder ==
    /\ uuid.order < MaxOrders
    /\ \E user_id \in {OwnerOf(uuid.order + 1)}, items \in ItemLists,
          a \in Addresses, n \in NotesInputs :
           order_save(OrderCreate(OrderId(uuid.order + 1), user_id,
                                  [i \in DOMAIN items |-> MakeOrderItem(items[i])],
                                  a, n, now))
    /\ uuid' = [uuid EXCEPT !.order = @ + 1]
    /\ UNCHANGED <<v1_users, tasks, user_obj, order, users, now>>

SaveStoredOrder ==
    /\ \E order_id \in DOMAIN orders, op \in {"confirm", "cancel"} :
           order_save(Transition(op, orders[order_id], now).self)
    /\ UNCHANGED <<v1_users, tasks, user_obj, order, users, now, uuid>>

RepoDeleteUser == \E user_id \in UserIds : delete_user(user_id)

RepoDeleteOrder == \E order_id \in OrderIds : delete_order(order_id)

GetUserOrders == \E user_id \in OrderOwners : get_user_orders(user_id)

GetOrdersByStatus ==
    \E status \in OrderStatus \cup {"unknown"} : get_orders_by_status(status)

NextRepo ==
    \/ SaveNewUser
    \/ SaveStoredUser
    \/ SaveNewOrder
    \/ SaveStoredOrder
    \/ RepoDeleteUser
    \/ RepoDeleteOrder
    \/ GetUserOrders
    \/ GetOrdersByStatus

SpecRepo == InitSvc /\ [][NextRepo]_vars

(* ====== SpecOrderRace: two transition use cases on one order id ======== *)
(* Each use case is three steps: get_by_id, the method of the entity, save *)
(* (order_service.py 83-121).  While two calls are under way, tasks holds  *)
(* the order as it was when they began (start), for each call its position *)
(* (pc), its use case (op), what get_by_id returned to it (held) and its   *)
(* outcome (out), and whether the two calls overlapped (mixed).            *)

RaceTasks == {1, 2}

RacedOrder == OrderId(1)

RaceOps == {"confirm", "process", "ship", "deliver", "cancel"}

InitOrderRace ==
    /\ now = 0
    /\ uuid = [user |-> 1, order |-> 1]
    /\ order = None
    /\ user_obj = None
    /\ users = UserRepo_save(EmptyStore, UserCreate(UserId(1), <<"a">>, <<"n">>, "p1", 0))
    /\ \E items \in ItemLists, a \in Addresses, n \in NotesInputs :
           orders = OrderRepo_save(EmptyStore,
                        OrderCreate(RacedOrder, UserId(1),
                                    [i \in DOMAIN items |-> MakeOrderItem(items[i])],
                                    a, n, 0))
    /\ ret = NoSvcCall
    /\ tasks = NoTasks
    /\ v1_users = <<>>

(* A use case called and completed with no other call under way. *)
SequentialCall ==
    /\ tasks = NoTasks
    /\ \E op \in RaceOps : transition_order(op, RacedOrder)

Other(i) == 3 - i

TaskAt(i, pc) == tasks # NoTasks /\ tasks.t[i].pc = pc

RaceStart ==
    /\ tasks = NoTasks
    /\ \E op1 \in RaceOps, op2 \in RaceOps :
           tasks' = [start |-> orders[RacedOrder],
                     mixed |-> FALSE,
                     t |-> [i \in RaceTasks |->
                              [pc |-> "get", op |-> IF i = 1 THEN op1 ELSE op2,
                               held |-> None, out |-> ""]]]
    /\ UNCHANGED <<v1_users, user_obj, order, users, orders, now, uuid, ret>>

(* order = await get_by_id(order_id); if not order: return None *)
TaskGet(i) ==
    /\ TaskAt(i, "get")
    /\ LET found == OrderRepo_get_by_id(orders, RacedOrder)
       IN  tasks' = [tasks EXCEPT
                        !.mixed = @ \/ tasks.t[Other(i)].pc \in {"call", "save"},
                        !.t[i] = IF found = None
                                 THEN [@ EXCEPT !.pc = "done", !.out = "None"]
                                 ELSE [@ EXCEPT !.pc = "call", !.held = found]]
    /\ UNCHANGED <<v1_users, user_obj, order, users, orders, now, uuid, ret>>

(* Mutant: get_by_id handed out a copy: the method runs on the order as it *)
(* was when this call read it, and that copy is what gets stored.          *)
call_on_copy(store, held, op, t) ==
    LET r == Transition(op, held, t)
    IN  [store |-> [store EXCEPT ![held.id] = r.self], error |-> r.error]

(* order.confirm() and the like: get_by_id returned the stored object      *)
(* itself, so the method reads and writes the object the store holds.      *)
call_on(store, held, op, t) ==
    LET r == Transition(op, store[held.id], t)
    IN  [store |-> [store EXCEPT ![held.id] = r.self], error |-> r.error]

TaskCall(i) ==
    /\ TaskAt(i, "call")
    /\ LET c == call_on(orders, tasks.t[i].held[1], tasks.t[i].op, now)
       IN  /\ orders' = c.store
           /\ tasks' = [tasks EXCEPT
                           !.t[i] = IF c.error # ""
                                    THEN [@ EXCEPT !.pc = "done", !.out = "ValueError"]
                                    ELSE [@ EXCEPT !.pc = "save"]]
    /\ UNCHANGED <<v1_users, user_obj, order, users, now, uuid, ret>>

(* return await save(order) *)
TaskSave(i) ==
    /\ TaskAt(i, "save")
    /\ orders' = OrderRepo_save(orders, orders[tasks.t[i].held[1].id])
    /\ tasks' = [tasks EXCEPT !.t[i] = [@ EXCEPT !.pc = "done", !.out = "entity"]]
    /\ UNCHANGED <<v1_users, user_obj, order, users, now, uuid, ret>>

RaceEnd ==
    /\ tasks # NoTasks
    /\ \A i \in RaceTasks : tasks.t[i].pc = "done"
    /\ tasks' = NoTasks
    /\ UNCHANGED <<v1_users, user_obj, order, users, orders, now, uuid, ret>>

OrderTaskGet == \E i \in RaceTasks : TaskGet(i)

OrderTaskCall == \E i \in RaceTasks : TaskCall(i)

OrderTaskSave == \E i \in RaceTasks : TaskSave(i)

NextOrderRace ==
    \/ SequentialCall
    \/ RaceStart
    \/ OrderTaskGet
    \/ OrderTaskCall
    \/ OrderTaskSave
    \/ RaceEnd

SpecOrderRace == InitOrderRace /\ [][NextOrderRace]_vars

(* ========= SpecUserRace: two create_user calls under way at once ======= *)
(* create_user is two steps: get_by_email with the test of its result, and *)
(* User.create with save (user_service.py 55-64).  tasks holds for each    *)
(* call its position (pc), its email and its outcome (out).                *)

RaceEmails == {<<"a">>, <<"A">>, <<"b">>}

UserRaceStart ==
    /\ tasks = NoTasks
    /\ \E e1 \in RaceEmails, e2 \in RaceEmails :
           tasks' = [mixed |-> FALSE,
                     t |-> [i \in RaceTasks |->
                              [pc |-> "get", email |-> IF i = 1 THEN e1 ELSE e2,
                               out |-> ""]]]
    /\ UNCHANGED <<v1_users, user_obj, order, users, orders, now, uuid, ret>>

(* existing_user = await get_by_email(email); if existing_user: raise *)
UserTaskGet(i) ==
    /\ TaskAt(i, "get")
    /\ LET existing_user == UserRepo_get_by_email(users, tasks.t[i].email)
       IN  tasks' = [tasks EXCEPT
                        !.mixed = @ \/ tasks.t[Other(i)].pc = "save",
                        !.t[i] = IF existing_user # None
                                 THEN [@ EXCEPT !.pc = "done", !.out = "ValueError"]
                                 ELSE [@ EXCEPT !.pc = "save"]]
    /\ UNCHANGED <<v1_users, user_obj, order, users, orders, now, uuid, ret>>

(* user = User.create(...); return await save(user) *)
UserTaskSave(i) ==
    /\ TaskAt(i, "save")
    /\ uuid.user < MaxUsers
    /\ users' = UserRepo_save(users,
                    UserCreate(UserId(uuid.user + 1), tasks.t[i].email, <<"n">>, "p1", now))
    /\ uuid' = [uuid EXCEPT !.user = @ + 1]
    /\ tasks' = [tasks EXCEPT !.t[i] = [@ EXCEPT !.pc = "done", !.out = "entity"]]
    /\ UNCHANGED <<v1_users, user_obj, order, orders, now, ret>>

UserRaceGet == \E i \in RaceTasks : UserTaskGet(i)

UserRaceSave == \E i \in RaceTasks : UserTaskSave(i)

(* delete_user called with no other call under way. *)
SequentialDelete ==
    /\ tasks = NoTasks
    /\ \E user_id \in UserIds : delete_user(user_id)

NextUserRace ==
    \/ UserRaceStart
    \/ UserRaceGet
    \/ UserRaceSave
    \/ RaceEnd
    \/ SequentialDelete

SpecUserRace == InitSvc /\ [][NextUserRace]_vars

(* ================ SpecMain: the routers of main.py ===================== *)
(* main.py includes the v1 users router and the orders router.  Each       *)
(* module keeps its own _user_repository: v1_users is the one of v1.py,    *)
(* users the one of orders.py, which its OrderService reads and which no   *)
(* endpoint of the orders router writes.                                   *)

(* POST of the v1 users router: UserService.create_user over the           *)
(* repository of v1.py; a ValueError becomes 409.                          *)
v1_create_user(email, name, password) ==
    LET existing_user == UserRepo_get_by_email(v1_users, email)
        arg == [email |-> email, name |-> name, password |-> password]
    IN  IF existing_user # None
        THEN /\ ret' = Outcome("v1_create_user", arg, "409", None)
             /\ UNCHANGED <<v1_users, tasks, user_obj, order, users, orders, now, uuid>>
        ELSE /\ uuid.user < MaxUsers
             /\ LET user == UserCreate(UserId(uuid.user + 1), email, name, password, now)
                IN  /\ v1_users' = UserRepo_save(v1_users, user)
                    /\ ret' = Outcome("v1_create_user", arg, "201", Some(user.id))
             /\ uuid' = [uuid EXCEPT !.user = @ + 1]
             /\ UNCHANGED <<tasks, user_obj, order, users, orders, now>>

(* DELETE of the v1 users router. *)
v1_delete_user(user_id) ==
    LET deleted == UserRepo_delete(v1_users, user_id)
    IN  /\ v1_users' = deleted.store
        /\ ret' = Outcome("v1_delete_user", [user_id |-> user_id],
                          IF deleted.found THEN "204" ELSE "404", None)
        /\ UNCHANGED <<tasks, user_obj, order, users, orders, now, uuid>>

V1CreateUser ==
    \E email \in EmailInputs, name \in NameInputs, password \in PasswordInputs :
        v1_create_user(email, name, password)

V1DeleteUser == \E user_id \in UserIds : v1_delete_user(user_id)

(* POST of the orders router: OrderService.create_order over the           *)
(* repositories of orders.py; the router answers a ValueError with 400.    *)
OrdersCreateOrder ==
    \E user_id \in UserIds, items \in ItemLists, a \in Addresses, n \in NotesInputs :
        create_order(user_id, items, a, n)

NextMain ==
    \/ V1CreateUser
    \/ V1DeleteUser
    \/ OrdersCreateOrder

SpecMain == InitSvc /\ [][NextMain]_vars

(* ====== SpecAlias: a caller changes an entity it got and saves not ===== *)
(* get_by_id returns the object the dict holds (memory_order_repository.py *)
(* 19-20, memory_user_repository.py 30-40): a method called on it changes  *)
(* the stored object.  The caller here never calls save.                   *)

(* order = get_by_id(order_id); order.confirm() and the like. *)
order_changed(order_id, op) ==
    LET found == OrderRepo_get_by_id(orders, order_id)
        arg == [id |-> order_id, op |-> op]
    IN  IF found = None
        THEN /\ ret' = Outcome("order_changed", arg, "None", None)
             /\ UNCHANGED <<v1_users, tasks, user_obj, order, users, orders, now, uuid>>
        ELSE LET c == call_on(orders, found[1], op, now)
             IN  /\ orders' = c.store
                 /\ ret' = Outcome("order_changed", arg,
                                   IF c.error # "" THEN "ValueError" ELSE "changed",
                                   None)
                 /\ UNCHANGED <<v1_users, tasks, user_obj, order, users, now, uuid>>

(* user = get_by_id(user_id); user.deactivate() or user.activate(). *)
user_changed(user_id, op) ==
    LET found == UserRepo_get_by_id(users, user_id)
        arg == [id |-> user_id, op |-> op]
    IN  IF found = None
        THEN /\ ret' = Outcome("user_changed", arg, "None", None)
             /\ UNCHANGED <<v1_users, tasks, user_obj, order, users, orders, now, uuid>>
        ELSE /\ users' = [users EXCEPT ![user_id] =
                             IF op = "deactivate" THEN deactivate(@, now)
                             ELSE activate(@, now)]
             /\ ret' = Outcome("user_changed", arg, "changed", None)
             /\ UNCHANGED <<v1_users, tasks, user_obj, order, orders, now, uuid>>

OrderChanged == \E order_id \in OrderIds, op \in RaceOps : order_changed(order_id, op)

UserChanged ==
    \E user_id \in UserIds, op \in {"deactivate", "activate"} : user_changed(user_id, op)

NextAlias ==
    \/ OrderChanged
    \/ UserChanged
    \/ RepoDeleteUser
    \/ RepoDeleteOrder

SpecAlias == InitOrderRace /\ [][NextAlias]_vars

(* ====================== claims on the Order entity ===================== *)

(* The order as it was when the last call began. *)
PreOrder == ret.pre[1]

EntityOps == {"confirm", "process", "ship", "deliver", "cancel", "add_item"}

Rejected == ret.op \in EntityOps /\ ret.error # ""

Succeeded == ret.op \in EntityOps /\ ret.error = ""

ForwardOps == {"confirm", "process", "ship", "deliver"}

RequiredStatus(op) ==
    CASE op = "confirm" -> PENDING
      [] op = "process" -> CONFIRMED
      [] op = "ship"    -> PROCESSING
      [] op = "deliver" -> SHIPPED

TargetStatus(op) ==
    CASE op = "confirm" -> CONFIRMED
      [] op = "process" -> PROCESSING
      [] op = "ship"    -> SHIPPED
      [] op = "deliver" -> DELIVERED

(* C1: confirm, process, ship and deliver succeed iff the status is the    *)
(* one immediately before their target (pending, confirmed, processing,    *)
(* shipped) and then set the target status; from any other status the call *)
(* is rejected and the status stays what it was.                           *)
C1_ForwardTransitions ==
    ret.op \in ForwardOps =>
        /\ (ret.error = "") <=> (PreOrder.status = RequiredStatus(ret.op))
        /\ ret.error = "" => order.status = TargetStatus(ret.op)
        /\ ret.error # "" => order.status = PreOrder.status

C1_Witness ==
    /\ ret.op = "ship"
    /\ PreOrder.status = CONFIRMED
    /\ ret.error # ""
    /\ order.status = CONFIRMED

(* C2: cancel succeeds and sets the status to cancelled from pending,      *)
(* confirmed or processing, and is rejected from shipped or delivered.     *)
C2_Cancel ==
    ret.op = "cancel" =>
        /\ PreOrder.status \in {PENDING, CONFIRMED, PROCESSING} =>
                ret.error = "" /\ order.status = CANCELLED
        /\ PreOrder.status \in {SHIPPED, DELIVERED} => ret.error # ""

C2_Witness ==
    /\ ret.op = "cancel"
    /\ PreOrder.status = SHIPPED
    /\ ret.error # ""

(* C3: a rejected call of confirm, process, ship, deliver, cancel or       *)
(* add_item leaves status, items, total and updated_at as they were.       *)
C3_RejectedNoMutation ==
    Rejected =>
        /\ order.status = PreOrder.status
        /\ order.items = PreOrder.items
        /\ order.total = PreOrder.total
        /\ order.updated_at = PreOrder.updated_at

C3_Witness ==
    /\ ret.op = "add_item"
    /\ ret.error # ""
    /\ order.items # <<>>
    /\ order.updated_at # None
    /\ order.updated_at # Some(now)

(* The sum of quantity * unit_price over a sequence of items. *)
RECURSIVE ItemsSum(_)
ItemsSum(items) ==
    IF items = <<>> THEN 0
    ELSE Head(items).quantity * Head(items).unit_price + ItemsSum(Tail(items))

(* C4: in every state the total of the order is the sum of                 *)
(* quantity * unit_price over its current items.                           *)
C4_TotalIsSum == order.total = ItemsSum(order.items)

C4_Witness ==
    /\ ret.op = "add_item"
    /\ ret.error = ""
    /\ Len(order.items) = 2
    /\ order.items[1].quantity = 2
    /\ order.total > PreOrder.total

StatusEdges ==
    {<<PENDING, CONFIRMED>>, <<CONFIRMED, PROCESSING>>, <<PROCESSING, SHIPPED>>,
     <<SHIPPED, DELIVERED>>, <<PENDING, CANCELLED>>, <<CONFIRMED, CANCELLED>>,
     <<PROCESSING, CANCELLED>>}

(* C5: the status of an order changes only along pending->confirmed,       *)
(* confirmed->processing, processing->shipped, shipped->delivered, or into *)
(* cancelled from pending, confirmed or processing; delivered and          *)
(* cancelled are never left, and shipped never becomes cancelled.          *)
C5_StatusEdges ==
    [][order'.id = order.id =>
         /\ order'.status # order.status =>
                <<order.status, order'.status>> \in StatusEdges
         /\ order.status \in {DELIVERED, CANCELLED} => order'.status = order.status
         /\ order.status = SHIPPED => order'.status # CANCELLED]_vars

C5_Witness ==
    /\ ret.op = "cancel"
    /\ ret.error # ""
    /\ PreOrder.status = DELIVERED
    /\ order.status = DELIVERED

(* C6: add_item succeeds iff the status is pending; then the item is the   *)
(* last of items, the items before it are unchanged, the status is still   *)
(* pending and total is the sum over all items; otherwise it is rejected.  *)
C6_AddItem ==
    ret.op = "add_item" =>
        /\ (ret.error = "") <=> (PreOrder.status = PENDING)
        /\ ret.error = "" =>
              /\ order.items = Append(PreOrder.items, ret.arg[1])
              /\ order.status = PENDING
              /\ order.total = ItemsSum(order.items)

C6_Witness ==
    /\ ret.op = "add_item"
    /\ ret.error = ""
    /\ PreOrder.items # <<>>
    /\ order.items[Len(order.items)] = ret.arg[1]
    /\ order.items[1] # ret.arg[1]

(* ======================= claims on the services ======================== *)

(* The step is a call of the service operation op. *)
Called(op) == ret'.seq # ret.seq /\ ret'.op = op

SameEmailIgnoringCase(e1, e2) ==
    /\ Len(e1) = Len(e2)
    /\ \A i \in 1 .. Len(e1) : LowerChar(e1[i]) = LowerChar(e2[i])

(* C7: create_user with an email that matches, ignoring letter case, the   *)
(* email of a stored user fails with the conflict error, whatever the name *)
(* and the password, and leaves the user store unchanged.                  *)
C7_DuplicateEmailConflict ==
    [][(/\ Called("create_user")
        /\ \E k \in DOMAIN users : SameEmailIgnoringCase(users[k].email, ret'.arg.email))
       => ret'.out = "ValueError" /\ users' = users]_vars

C7_Witness ==
    /\ ret.op = "create_user"
    /\ ret.out = "ValueError"
    /\ \E k \in DOMAIN users :
          /\ users[k].email # ret.arg.email
          /\ SameEmailIgnoringCase(users[k].email, ret.arg.email)
          /\ users[k].name # ret.arg.name
          /\ users[k].password_hash # hash_password(ret.arg.password)

(* C8: no two stored users have emails that are equal after trimming and   *)
(* lowercasing, after any sequence of create_user, update_user and         *)
(* delete_user calls.                                                      *)
C8_EmailsUnique ==
    \A k1, k2 \in DOMAIN users :
        k1 # k2 => strip(lower(users[k1].email)) # strip(lower(users[k2].email))

TransitionUseCases ==
    {"confirm_order", "process_order", "ship_order", "deliver_order", "cancel_order"}

(* C9: create_order fails with the not-found error and leaves the order    *)
(* store unchanged iff user_id is not in the user repository; otherwise it *)
(* stores exactly one new order, under an id no stored order has, with the *)
(* given user_id, status pending, updated_at unset and total the sum of    *)
(* the item subtotals.                                                     *)
C9_CreateOrder ==
    [][Called("create_order") =>
         LET user_id == ret'.arg.user_id
         IN  /\ (ret'.out = "ValueError" /\ orders' = orders) <=> (user_id \notin DOMAIN users)
             /\ user_id \in DOMAIN users =>
                   /\ ret'.out = "entity"
                   /\ \E id \in DOMAIN orders' \ DOMAIN orders :
                         /\ DOMAIN orders' = DOMAIN orders \cup {id}
                         /\ \A k \in DOMAIN orders : orders'[k] = orders[k]
                         /\ ret'.val = Some(id)
                         /\ orders'[id].id = id
                         /\ orders'[id].user_id = user_id
                         /\ orders'[id].status = PENDING
                         /\ orders'[id].updated_at = None
                         /\ Len(orders'[id].items) = Len(ret'.arg.items)
                         /\ orders'[id].total = ItemsSum(ret'.arg.items)]_vars

C9_Witness ==
    /\ ret.op = "create_order"
    /\ ret.out = "entity"
    /\ ret.val[1] \in DOMAIN orders
    /\ orders[ret.val[1]].total = 25
    /\ \E k \in DOMAIN orders : k # ret.val[1] /\ orders[k].status # PENDING

(* C10: for an order id that is not in the order store, confirm_order,     *)
(* process_order, ship_order, deliver_order and cancel_order return None   *)
(* without raising and leave both stores unchanged.                        *)
C10_UnknownOrder ==
    [][(/\ ret'.seq # ret.seq
        /\ ret'.op \in TransitionUseCases
        /\ ret'.arg.order_id \notin DOMAIN orders)
       => ret'.out = "None" /\ orders' = orders /\ users' = users]_vars

C10_Witness ==
    /\ ret.op = "cancel_order"
    /\ ret.out = "None"
    /\ ret.arg.order_id \notin DOMAIN orders
    /\ orders # EmptyStore
    /\ users # EmptyStore

(* The entity method a transition use case calls. *)
MethodOf(useCase) ==
    CASE useCase = "confirm_order" -> "confirm"
      [] useCase = "process_order" -> "process"
      [] useCase = "ship_order"    -> "ship"
      [] useCase = "deliver_order" -> "deliver"
      [] useCase = "cancel_order"  -> "cancel"

(* The guards of the transition table. *)
GuardHolds(method, status) ==
    IF method = "cancel" THEN status \notin {SHIPPED, DELIVERED}
    ELSE status = RequiredStatus(method)

NewStatus(method) == IF method = "cancel" THEN CANCELLED ELSE TargetStatus(method)

(* The set of the elements of a sequence. *)
Range(q) == {q[i] : i \in DOMAIN q}

(* C11: on a stored order, a transition use case whose guard holds leaves  *)
(* the store holding the order under the same id with the new status, as   *)
(* get_by_id and get_by_status then show, and changes no other stored      *)
(* order; one whose guard fails raises the invalid-transition failure and  *)
(* leaves both stores exactly as they were.                                *)
C11_TransitionUseCase ==
    [][(/\ ret'.seq # ret.seq
        /\ ret'.op \in TransitionUseCases
        /\ ret'.arg.order_id \in DOMAIN orders)
       => LET id == ret'.arg.order_id
              method == MethodOf(ret'.op)
          IN  IF GuardHolds(method, orders[id].status)
              THEN /\ ret'.out = "entity"
                   /\ ret'.val = Some(id)
                   /\ DOMAIN orders' = DOMAIN orders
                   /\ OrderRepo_get_by_id(orders', id) # None
                   /\ OrderRepo_get_by_id(orders', id)[1].id = id
                   /\ OrderRepo_get_by_id(orders', id)[1].status = NewStatus(method)
                   /\ \E o \in Range(OrderRepo_get_by_status(orders', NewStatus(method))) :
                         o.id = id
                   /\ \A k \in DOMAIN orders \ {id} : orders'[k] = orders[k]
                   /\ users' = users
              ELSE /\ ret'.out = "ValueError"
                   /\ orders' = orders
                   /\ users' = users]_vars

C11_Witness ==
    /\ ret.op = "ship_order"
    /\ ret.out = "entity"
    /\ orders[ret.arg.order_id].status = SHIPPED
    /\ \E k \in DOMAIN orders : k # ret.arg.order_id /\ orders[k].status = CONFIRMED
    /\ users # EmptyStore

(* C12: update_user on a stored user sets every supplied field whose value *)
(* is not None, the empty string included, leaves the other fields and the *)
(* other users as they were and returns the user; on an unknown id it      *)
(* returns None and leaves the store unchanged.                            *)
C12_UpdateUser ==
    [][Called("update_user") =>
         LET id == ret'.arg.user_id
             name == ret'.arg.name
             email == ret'.arg.email
         IN  IF id \in DOMAIN users
             THEN /\ ret'.out = "entity"
                  /\ DOMAIN users' = DOMAIN users
                  /\ users'[id].name = IF name # None THEN name[1] ELSE users[id].name
                  /\ users'[id].email = IF email # None THEN email[1] ELSE users[id].email
                  /\ users'[id].id = id
                  /\ users'[id].password_hash = users[id].password_hash
                  /\ users'[id].is_active = users[id].is_active
                  /\ users'[id].created_at = users[id].created_at
                  /\ \A k \in DOMAIN users \ {id} : users'[k] = users[k]
             ELSE ret'.out = "None" /\ users' = users]_vars

(* C13: after a successful update_user that changes the name or the email  *)
(* of a user, the updated_at of that user holds the time of the call.      *)
C13_UpdateUserStamps ==
    [][(/\ Called("update_user")
        /\ ret'.out = "entity"
        /\ \/ users'[ret'.arg.user_id].name # users[ret'.arg.user_id].name
           \/ users'[ret'.arg.user_id].email # users[ret'.arg.user_id].email)
       => users'[ret'.arg.user_id].updated_at = Some(now)]_vars

(* C14: every stored user has a lowercase email without leading or         *)
(* trailing whitespace and a name without leading or trailing whitespace.  *)
C14_StoredUsersNormalized ==
    \A k \in DOMAIN users :
        /\ users[k].email = strip(lower(users[k].email))
        /\ users[k].name = strip(users[k].name)

(* ------------------------- repository claims --------------------------- *)

OthersKept(before, after, id) ==
    \A k \in DOMAIN before \ {id} : k \in DOMAIN after /\ after[k] = before[k]

DeleteContract(before, after, id, out) ==
    IF id \in DOMAIN before
    THEN /\ out = "True"
         /\ DOMAIN after = DOMAIN before \ {id}
         /\ OthersKept(before, after, id)
    ELSE /\ out = "False"
         /\ after = before

(* C15: delete_user and delete_order, which return what the repository's   *)
(* delete returns, answer False without raising and leave the store as it  *)
(* was when the id is absent; when it is present they answer True, remove  *)
(* exactly that entry, so that get_by_id then finds nothing, and leave     *)
(* every other entry and the other store unchanged.                        *)
C15_Delete ==
    [][ /\ Called("delete_user") =>
              /\ DeleteContract(users, users', ret'.arg.user_id, ret'.out)
              /\ UserRepo_get_by_id(users', ret'.arg.user_id) = None
              /\ orders' = orders
        /\ Called("delete_order") =>
              /\ DeleteContract(orders, orders', ret'.arg.order_id, ret'.out)
              /\ OrderRepo_get_by_id(orders', ret'.arg.order_id) = None
              /\ users' = users
      ]_vars

C15_Witness ==
    /\ ret.op = "delete_order"
    /\ ret.out = "True"
    /\ ret.arg.order_id \notin DOMAIN orders
    /\ orders # EmptyStore
    /\ users # EmptyStore

SaveContract(before, after, e) ==
    /\ e.id \in DOMAIN after
    /\ after[e.id] = e
    /\ Cardinality(DOMAIN after) =
           Cardinality(DOMAIN before) + (IF e.id \in DOMAIN before THEN 0 ELSE 1)
    /\ OthersKept(before, after, e.id)

(* C16: after save(e) get_by_id(e.id) returns e; the store has one entry   *)
(* more if e.id was absent and as many as before if it was present; the    *)
(* entry of every other id is unchanged.                                   *)
C16_SaveUpsert ==
    [][ /\ Called("user_save") =>
              /\ SaveContract(users, users', ret'.arg.entity)
              /\ UserRepo_get_by_id(users', ret'.arg.entity.id) = Some(ret'.arg.entity)
        /\ Called("order_save") =>
              /\ SaveContract(orders, orders', ret'.arg.entity)
              /\ OrderRepo_get_by_id(orders', ret'.arg.entity.id) = Some(ret'.arg.entity)
      ]_vars

(* An order that is not pending was saved over the pending order stored    *)
(* under its id, next to another order.                                    *)
C16_Witness ==
    /\ ret.op = "order_save"
    /\ ret.arg.entity.status # PENDING
    /\ Cardinality(DOMAIN orders) = 2
    /\ orders[ret.arg.entity.id] = ret.arg.entity

ExactlyThose(list, expected) ==
    /\ Range(list) = expected
    /\ Len(list) = Cardinality(Range(list))

(* C17: get_by_status(s) returns, each once, the stored orders whose       *)
(* status is s, and get_by_user_id(u) the stored orders whose user_id is   *)
(* u; every stored order is returned for exactly one status; neither query *)
(* changes a store.                                                        *)
C17_Queries ==
    [][ /\ Called("get_orders_by_status") /\ ret'.out = "list" =>
              LET expected == {o \in Range(orders) : o.status = ret'.arg.status}
              IN  /\ ExactlyThose(ret'.val[1], expected)
                  /\ orders' = orders /\ users' = users
        /\ Called("get_user_orders") =>
              LET expected == {o \in Range(orders) : o.user_id = ret'.arg.user_id}
              IN  /\ ExactlyThose(ret'.val[1], expected)
                  /\ orders' = orders /\ users' = users
        /\ \A k \in DOMAIN orders' :
              Cardinality({s \in OrderStatus :
                  orders'[k] \in Range(OrderRepo_get_by_status(orders', s))}) = 1
      ]_vars

(* The query left out a stored order of another status. *)
C17_Witness ==
    /\ ret.op = "get_orders_by_status"
    /\ ret.out = "list"
    /\ Len(ret.val[1]) = 1
    /\ Cardinality(DOMAIN orders) = 2

(* --------------------------- User entity claims ------------------------ *)

PreUser == ret.pre[1]

MutableFields == {"email", "name", "password_hash", "is_active"}

(* C18: User.update gives each supplied mutable field its supplied value   *)
(* and leaves the others; id and created_at keep their values even when    *)
(* new ones are supplied; a supplied key that is no attribute of the user  *)
(* is ignored, the object gaining no attribute; updated_at is the time of  *)
(* the call in every case.                                                 *)
C18_UserUpdate ==
    ret.op = "update" =>
        LET kwargs == ret.arg[1]
        IN  /\ \A key \in MutableFields :
                  user_obj[key] = IF key \in DOMAIN kwargs THEN kwargs[key]
                                  ELSE PreUser[key]
            /\ user_obj.id = PreUser.id
            /\ user_obj.created_at = PreUser.created_at
            /\ \A key \in DOMAIN kwargs :
                  ~hasattr(PreUser, key) => key \notin DOMAIN user_obj
            /\ user_obj.updated_at = Some(ret.at)

(* update was called, later than the creation, with a name, a new id, a    *)
(* new created_at and a key that is no attribute.                          *)
C18_Witness ==
    /\ ret.op = "update"
    /\ DOMAIN ret.arg[1] = {"name", "id", "created_at", "nickname"}
    /\ ret.at > 0
    /\ user_obj.name = <<"m">>

(* ----------------------- failures of the transitions ------------------- *)

RejectedUseCase(r) == r.op \in TransitionUseCases /\ r.out = "ValueError"

C20_CancelTwiceNoChange ==
    (ret.op = "cancel" /\ PreOrder.status = CANCELLED) => order = PreOrder

(* C20: cancel on an order that is already cancelled succeeds and leaves   *)
(* every field but updated_at as it was; updated_at becomes the time of    *)
(* this call, so a second cancel gives the order of the first with a later *)
(* stamp.                                                                  *)
C20_CancelTwiceRestamps ==
    [][ ( /\ now' = now
          /\ ret'.op = "cancel"
          /\ ret'.pre = Some(order)
          /\ order.status = CANCELLED )
        => /\ ret'.error = ""
           /\ order' = [order EXCEPT !.updated_at = Some(now)]
           /\ order'.status = CANCELLED
           /\ order'.items = order.items
           /\ order'.total = order.total ]_vars

(* A cancelled order was cancelled again, later than the first time. *)
C20_Witness ==
    /\ ret.op = "cancel"
    /\ ret.error = ""
    /\ PreOrder.status = CANCELLED
    /\ order.status = CANCELLED
    /\ order.updated_at # PreOrder.updated_at

(* ----------------------------- updated_at ------------------------------ *)

(* A step that is a call of a method on the order under study. *)
EntityCallStep ==
    /\ now' = now
    /\ ret'.op \in EntityOps
    /\ ret'.pre = Some(order)

(* C21: a successful confirm, process, ship, deliver, cancel or add_item   *)
(* sets updated_at to the time of the call, a rejected one leaves it, and  *)
(* create leaves it unset: so it is unset iff no call has succeeded since  *)
(* the creation; once set it stays set, is not earlier than created_at and *)
(* does not decrease.                                                      *)
C21_UpdatedAt ==
    [][ /\ EntityCallStep =>
              /\ ret'.error = "" => order'.updated_at = Some(now)
              /\ ret'.error # "" => order'.updated_at = order.updated_at
              /\ order'.updated_at # None =>
                     order'.updated_at[1] >= order'.created_at
              /\ order.updated_at # None =>
                     /\ order'.updated_at # None
                     /\ order'.updated_at[1] >= order.updated_at[1]
        /\ (ret'.op = "create" /\ uuid' # uuid) => order'.updated_at = None
        /\ ~EntityCallStep /\ uuid' = uuid => order' = order
      ]_vars

(* A second call succeeded, later than the first. *)
C21_Witness ==
    /\ ret.op \in EntityOps
    /\ ret.error = ""
    /\ PreOrder.updated_at # None
    /\ order.updated_at # None
    /\ order.updated_at[1] > PreOrder.updated_at[1]
    /\ order.updated_at[1] > order.created_at

(* ------------------------------ update_order --------------------------- *)

(* C22: update_order on a stored id gives the order the shipping_address   *)
(* and the notes supplied, keeps it stored and returns it; on an id that   *)
(* is not stored it returns None.                                          *)
C22_UpdateOrder ==
    [][ Called("update_order") =>
          LET id == ret'.arg.order_id
          IN  IF id \in DOMAIN orders
              THEN /\ ret'.out = "entity"
                   /\ ret'.val = Some(id)
                   /\ id \in DOMAIN orders'
                   /\ ret'.arg.shipping_address # None =>
                          orders'[id].shipping_address = ret'.arg.shipping_address[1]
                   /\ orders'[id].notes = ret'.arg.notes
              ELSE ret'.out = "None" /\ orders' = orders
      ]_vars

(* ------------------------- delete through the v2 API ------------------- *)

(* C23: after a successful delete through the v2 users endpoint the user   *)
(* is still stored and is marked inactive.                                 *)
C23_SoftDelete ==
    [][ (Called("v2_delete_user") /\ ret'.out = "204") =>
            /\ ret'.arg.user_id \in DOMAIN users'
            /\ users'[ret'.arg.user_id].is_active = FALSE
      ]_vars

(* --------------------- items and total after pending ------------------- *)

(* C24: on an order that is no longer pending, no method of the order      *)
(* changes items or total, and none makes it pending again: once the order *)
(* has left pending its items and total stay what they are.                *)
C24_ItemsFrozen ==
    [][ (order.status # PENDING /\ uuid' = uuid) =>
            /\ order'.items = order.items
            /\ order'.total = order.total
            /\ order'.status # PENDING
      ]_vars

(* add_item was called on an order that had left pending. *)
C24_Witness ==
    /\ ret.op = "add_item"
    /\ PreOrder.status \in {CONFIRMED, PROCESSING}
    /\ ret.error # ""
    /\ order.items = PreOrder.items
    /\ order.total = PreOrder.total
    /\ Len(order.items) > 0

(* -------------------- two use cases on one order id -------------------- *)

BothDone == tasks # NoTasks /\ \A i \in RaceTasks : tasks.t[i].pc = "done"

TaskOk(i) == tasks.t[i].out = "entity"

(* The first call, then the second, each from get_by_id to save, on s0. *)
Sequential(s0, opA, opB) ==
    LET r1 == Transition(opA, s0, now)
        r2 == Transition(opB, r1.self, now)
    IN  [status |-> r2.self.status, okA |-> r1.error = "", okB |-> r2.error = ""]

(* C25: when two transition use cases on one order id have run with their  *)
(* steps interleaved, the stored status and the two outcomes are those of  *)
(* one of the two sequential orders of the calls; so two confirm_order on  *)
(* a pending order do not both succeed, and when ship_order succeeded      *)
(* against a cancel_order the order is not left cancelled.                 *)
C25_RaceSerializable ==
    BothDone =>
        LET final == orders[RacedOrder].status
        IN  /\ \E a \in RaceTasks :
                  LET b == Other(a)
                      s == Sequential(tasks.start, tasks.t[a].op, tasks.t[b].op)
                  IN  /\ final = s.status
                      /\ TaskOk(a) = s.okA
                      /\ TaskOk(b) = s.okB
            /\ ( /\ tasks.start.status = PENDING
                 /\ \A i \in RaceTasks : tasks.t[i].op = "confirm" )
               => ~(TaskOk(1) /\ TaskOk(2))
            /\ \A i \in RaceTasks :
                  ( /\ tasks.t[i].op = "ship"
                    /\ tasks.t[Other(i)].op = "cancel"
                    /\ TaskOk(i) )
                  => final = SHIPPED /\ ~TaskOk(Other(i))

(* Two confirm_order calls on a pending order overlapped and are done. *)
C25_Witness ==
    /\ BothDone
    /\ tasks.mixed
    /\ tasks.start.status = PENDING
    /\ \A i \in RaceTasks : tasks.t[i].op = "confirm"
    /\ TaskOk(2)
    /\ ~TaskOk(1)
    /\ orders[RacedOrder].status = CONFIRMED

(* ---------------------- two create_user calls at once ------------------ *)

(* C26: when two create_user calls with the same email have run with      *)
(* their steps interleaved, at most one of them succeeded and the store    *)
(* does not hold two users with that email.                                *)
C26_RaceOneCreated ==
    (BothDone /\ tasks.t[1].email = tasks.t[2].email) =>
        /\ ~(TaskOk(1) /\ TaskOk(2))
        /\ Cardinality({k \in DOMAIN users :
               users[k].email = strip(lower(tasks.t[1].email))}) <= 1

(* ------------------- orders of a user that is deleted ------------------ *)

(* C27: delete_user leaves the order store as it is: the orders of the     *)
(* deleted user stay stored, with their user_id and status, and            *)
(* get_by_user_id still returns them; what holds of an order's user_id is  *)
(* that create_order found that user stored when it created the order.     *)
C27_OrdersOutliveUser ==
    [][ /\ Called("delete_user") =>
              /\ orders' = orders
              /\ \A k \in DOMAIN orders :
                    orders[k].user_id = ret'.arg.user_id =>
                        orders[k] \in Range(OrderRepo_get_by_user_id(orders',
                                                                     ret'.arg.user_id))
        /\ (Called("create_order") /\ ret'.out = "entity") =>
              /\ ret'.arg.user_id \in DOMAIN users
              /\ orders'[ret'.val[1]].user_id = ret'.arg.user_id
      ]_vars

(* A user was deleted whose order, already confirmed, is still stored. *)
C27_Witness ==
    /\ ret.op = "delete_user"
    /\ ret.out = "True"
    /\ \E k \in DOMAIN orders :
          /\ orders[k].user_id = ret.arg.user_id
          /\ orders[k].user_id \notin DOMAIN users
          /\ orders[k].status = CONFIRMED
          /\ orders[k] \in Range(OrderRepo_get_by_user_id(orders, ret.arg.user_id))

(* ------------------- users router and orders router -------------------- *)

(* C28: create_order through the orders router for the id of a user that   *)
(* was created through the v1 users router, and is stored there, succeeds. *)
C28_SharedUserStore ==
    [][ (Called("create_order") /\ ret'.arg.user_id \in DOMAIN v1_users)
            => ret'.out = "entity" ]_vars

(* ---------------- changes to an entity that is not saved --------------- *)

(* C29: after a caller has changed an entity it got from get_by_id and has *)
(* not called save, get_by_id still returns the entity as it was before.   *)
C29_UnsavedNotStored ==
    [][ /\ Called("order_changed") =>
              OrderRepo_get_by_id(orders', ret'.arg.id) =
                  OrderRepo_get_by_id(orders, ret'.arg.id)
        /\ Called("user_changed") =>
              UserRepo_get_by_id(users', ret'.arg.id) =
                  UserRepo_get_by_id(users, ret'.arg.id)
      ]_vars

====
